---- MODULE Spec2Model ----
(***************************************************************************)
(* nubedb: node boot (bootstrap versus join) and leader discovery.         *)
(*                                                                         *)
(* One node is modelled from the moment it boots (consensus.New ->         *)
(* setRaft -> startConsensus) or from a direct call of                     *)
(* discover.SearchLeader.  The mDNS network, the consensus library and the *)
(* peers' RPC servers are the environment: every call into them is one     *)
(* step whose outcome is chosen nondeterministically.                      *)
(*                                                                         *)
(* Strings are sequences of tokens.  The tokens "node", "1".."4" and "."   *)
(* form a prefix code, so a string has exactly one token sequence and      *)
(* sequence equality is string equality.  Error messages are sequences of  *)
(* words; the nil error is the empty sequence.                             *)
(***************************************************************************)
EXTENDS Naturals, Sequences, FiniteSets

\* ------------------------------------------------------------------ bounds

\* The largest number of service entries one mDNS query delivers.
MaxEntries == 2

\* The largest number of events the engine processes in a run.
MaxEvents == 3

\* The largest number of entries in the committed log.
MaxLog == 2

\* ------------------------------------------------------------ string model

Dot == "."

Node(d) == <<"node", d>>

Range(s) == {s[k] : k \in 1..Len(s)}

SeqsUpTo(S, n) == UNION {[1..k -> S] : k \in 0..n}

\* Every ordering of a finite set as a sequence without repetition.
Perms(S) ==
    {f \in [1..Cardinality(S) -> S] : \A a, b \in 1..Cardinality(S) : f[a] = f[b] => a = b}

\* strings.Contains
Contains(s, sub) ==
    \E k \in 0..Len(s) : k + Len(sub) <= Len(s) /\ SubSeq(s, k + 1, k + Len(sub)) = sub

\* strings.ReplaceAll(host, ".", ""): every dot goes, wherever it stands.
ReplaceAllDots(host) == SelectSeq(host, LAMBDA t : t # Dot)

\* ------------------------------------------------------------------ errors

NoError == <<>>

\* errorskit.Wrap(err, msg): "msg: err"
Wrap(err, msg) == msg \o <<":">> \o err

ErrLeaderNotFound == <<"couldn't", "find", "a", "leader">>

\* What mdns.Query can fail with (the text is the library's).
ErrMdns == <<"mdns", "query", "failed">>

\* query() wraps the failure of mdns.Query.
QueryError(err) == Wrap(err, <<"discover", "search">>)

\* The errors of the consensus library's BootstrapCluster.
ErrNotVoter == <<"node", "is", "not", "a", "voter">>
ErrCantBootstrap == <<"bootstrap", "only", "works", "on", "new", "clusters">>
BootstrapOutcomes == {NoError, ErrNotVoter, ErrCantBootstrap}

\* What an IsLeader RPC can answer: a transport error, leader=true, leader=false.
IsLeaderReplies == {"err", "true", "false"}

\* What cluster.ConsensusJoin can return: nil, the refusal of a peer that is
\* not the leader, or another failure (a transport error, a timeout).
ErrJoin == <<"consensus", "join", "failed">>
ErrNotLeader == <<"node", "is", "not", "the", "leader">>
JoinOutcomes == {NoError, ErrNotLeader, ErrJoin}

\* ------------------------------------------------------------- identifiers

\* The ids the local node may be configured with: a bootstrap voter, a node
\* outside the bootstrap list, and an id that contains a dot.
NodeIds == {Node("1"), Node("4"), <<"node", Dot, "4">>}

\* The host names an mDNS query may report: plain, with the trailing dot some
\* platforms append, and with a dot inside the name.
HostUniverse ==
    {Node("1"), Node("1") \o <<Dot>>, Node("2"), Node("4"), <<"node", Dot, "4">>}

\* config.MakeGrpcAddress / config.MakeConsensusAddr: a pure function of the id.
MakeGrpcAddress(id) == [host |-> id, port |-> "grpc"]
MakeConsensusAddr(id) == [host |-> id, port |-> "consensus"]

\* No node is leader.
NoLeader == <<>>

\* The nodes of the cluster, under the ids the leader search knows them by.
ClusterIds == {Node("1"), Node("2"), Node("4")}

\* The nodes whose KV stores are followed, the keys and the values written.
KVNodes == {Node("1"), Node("2")}
Keys == <<"k1", "k2">>
Values == {"v1", "v2"}

\* A key that has no entry in a store.
NoValue == <<>>

\* No request has been answered yet.
NoResponse == [method |-> "none", node |-> <<>>, key |-> "", status |-> 0, body |-> "", rpcs |-> 0]

\* query() has not returned.
NoReturn == [hosts |-> <<>>, err |-> NoError, done |-> FALSE]

\* The two observation channels of a Node.
Channels == {"nodeChangesChan", "leaderChangesChan"}

\* No observation is being delivered.
NoObservation == [kind |-> "none", data |-> <<>>, to |-> "none"]

\* The cluster configurations the engine may hold when the node boots.
BootConfigs(self) ==
    {{}, {self}, {Node("1"), Node("2")}, {Node("1"), Node("2"), Node("3")}}

VARIABLES
    currentNode,   \* cfg.CurrentNode.ID
    entry,         \* "boot": New/setRaft/startConsensus; "search": SearchLeader called directly
    pc,            \* where the node is
    cfgServers,    \* ids of n.Consensus.GetConfiguration().Configuration().Servers
    nBootstrap,    \* calls of BootstrapCluster
    bootstrapArg,  \* the servers handed to BootstrapCluster
    bootstrapErr,  \* future.Error()
    joinEntered,   \* joinNodeToExistingConsensus was called
    i,             \* SearchNodes' loop counter
    nQuery,        \* calls of query()
    reported,      \* every host a successful query returned
    hosts,         \* SearchNodes' map, as its key set
    lastError,     \* SearchNodes' lastError
    nodes,         \* the slice SearchNodes returns
    idx,           \* SearchLeader's position in nodes (1-based)
    asked,         \* the IsLeader RPCs made so far, with their answers
    slReturned,    \* SearchLeader has returned
    slRet,         \* what it returned
    joinSent,      \* the ConsensusJoin calls made
    ret,           \* startConsensus' return value
    bootLog,       \* the boot steps of newNode and setRaft completed so far, in order
    newRet,        \* what New returned: "pending", "node" or "error"
    leader,        \* the id of the cluster's current leader, or NoLeader
    observers,     \* the observers registered with the engine
    drain,         \* per observation channel, what its drain goroutine is doing
    cur,           \* the observation the engine is delivering, and to which observer
    toNotify,      \* the observers the current observation still has to go to
    events,        \* the number of events the engine has processed
    logged,        \* the lines the drain goroutines have logged
    log,           \* the committed log: the payloads the leader has accepted, in order
    applied,       \* per node, how many log entries its FSM has applied
    store,         \* per node, its KV store: key -> stored bytes
    accepted,      \* the client writes the leader has accepted, in order
    resp,          \* the last response of the public API
    qPc,           \* where query() is
    entriesCh,     \* the entries channel's buffer
    nClose,        \* how often the entries channel has been closed
    collector,     \* where query()'s collector goroutine is
    cEntry,        \* the entry the collector has received and not yet appended
    mu,            \* who holds query()'s mutex
    qHosts,        \* query()'s hosts slice
    delivered,     \* the hosts of the entries the mDNS query has sent on the channel
    qRet           \* what query() returned

vars ==
    <<currentNode, entry, pc, cfgServers, nBootstrap, bootstrapArg, bootstrapErr,
      joinEntered, i, nQuery, reported, hosts, lastError, nodes, idx, asked,
      slReturned, slRet, joinSent, ret, bootLog, newRet, leader,
      observers, drain, cur, toNotify, events, logged,
      log, applied, store, accepted, resp,
      qPc, entriesCh, nClose, collector, cEntry, mu, qHosts, delivered, qRet>>

\* The variables of the replicated KV store and of the public API.
kvVars == <<log, applied, store, accepted, resp>>

\* The variables of one call of query().
queryVars == <<qPc, entriesCh, nClose, collector, cEntry, mu, qHosts, delivered, qRet>>

\* The variables of the engine and its observers.
engineVars == <<observers, drain, cur, toNotify, events, logged>>

\* The variables of the boot and of the leader search.
nodeVars ==
    <<currentNode, entry, pc, cfgServers, nBootstrap, bootstrapArg, bootstrapErr,
      joinEntered, i, nQuery, reported, hosts, lastError, nodes, idx, asked,
      slReturned, slRet, joinSent, ret, bootLog, newRet>>

\* What the actions of startConsensus and of the leader search leave alone.
otherVars == <<bootLog, newRet, leader, engineVars, kvVars, queryVars>>

bootVars == <<nBootstrap, bootstrapArg, bootstrapErr, joinEntered>>
nodesVars == <<i, nQuery, reported, hosts, lastError, nodes>>
loopVars == <<idx, asked>>

Init ==
    /\ currentNode \in NodeIds
    /\ entry \in {"boot", "search"}
    /\ pc = "start"
    /\ cfgServers \in BootConfigs(currentNode)
    /\ nBootstrap = 0
    /\ bootstrapArg = <<>>
    /\ bootstrapErr = NoError
    /\ joinEntered = FALSE
    /\ i = 0
    /\ nQuery = 0
    /\ reported = {}
    /\ hosts = {}
    /\ lastError = NoError
    /\ nodes = <<>>
    /\ idx = 1
    /\ asked = <<>>
    /\ slReturned = FALSE
    /\ slRet = [id |-> <<>>, err |-> NoError]
    /\ joinSent = <<>>
    /\ ret = NoError
    /\ bootLog = <<>>
    /\ newRet = "pending"
    /\ leader \in ClusterIds \cup {NoLeader}
    /\ observers = {}
    /\ drain = [c \in Channels |-> "none"]
    /\ cur = NoObservation
    /\ toNotify = {}
    /\ events = 0
    /\ logged = <<>>
    /\ log = <<>>
    /\ applied = [n \in KVNodes |-> 0]
    /\ store = [n \in KVNodes |-> [k \in Range(Keys) |-> NoValue]]
    /\ accepted = <<>>
    /\ resp = NoResponse
    /\ qPc = "idle"
    /\ entriesCh = <<>>
    /\ nClose = 0
    /\ collector = "none"
    /\ cEntry = <<>>
    /\ mu = "none"
    /\ qHosts = <<>>
    /\ delivered = <<>>
    /\ qRet = NoReturn

\* ------------------------------------------------------------- the cluster

\* The IsLeader handler of a peer: whether the receiving node is the leader
\* now; the RPC may also fail.
PeerAnswers(node) == {"err", IF leader = node THEN "true" ELSE "false"}

\* A peer executes ConsensusJoin as addVoter, which only the leader accepts.
AddVoterOutcomes(peer) == IF leader = peer THEN {NoError, ErrJoin} ELSE {ErrNotLeader, ErrJoin}

\* An election: another node, or none, is the leader now.
Election ==
    /\ newRet = "pending"
    /\ pc # "done"
    /\ \E l \in (ClusterIds \cup {NoLeader}) \ {leader} : leader' = l
    /\ UNCHANGED <<currentNode, entry, pc, cfgServers, bootVars, nodesVars, loopVars,
                   slReturned, slRet, joinSent, ret, bootLog, newRet, engineVars>>
    /\ UNCHANGED <<kvVars, queryVars>>

\* ------------------------------------------------------- discover.SearchNodes

\* for i := 0; i < 3; i++
NumQueries == 3

\* What one call of query() returns: an error, or the hosts of the entries the
\* mDNS query delivered.
QueryOutcomes ==
    {[hosts |-> <<>>, err |-> QueryError(ErrMdns)]}
        \cup {[hosts |-> h, err |-> NoError] : h \in SeqsUpTo(HostUniverse, MaxEntries)}

\* The keys SearchNodes stores for the hosts of one successful query.
HostKeys(hostsQuery) == {ReplaceAllDots(hostsQuery[k]) : k \in 1..Len(hostsQuery)}

\* The conversion of the map to the result slice leaves the current node out.
ExcludeCurrent_Keep(hostSet, current) == hostSet

ExcludeCurrent(hostSet, current) == {host \in hostSet : current # host}

\* One iteration of SearchNodes' loop: a query, then the map update (or, on an
\* error, lastError and the next iteration).
Query ==
    /\ pc = "searchNodes"
    /\ i < NumQueries
    /\ \E out \in QueryOutcomes :
        /\ nQuery' = nQuery + 1
        /\ i' = i + 1
        /\ IF out.err # NoError
              THEN /\ lastError' = out.err
                   /\ UNCHANGED <<hosts, reported>>
              ELSE /\ hosts' = hosts \cup HostKeys(out.hosts)
                   /\ reported' = reported \cup Range(out.hosts)
                   /\ UNCHANGED lastError
    /\ UNCHANGED <<currentNode, entry, pc, cfgServers, bootVars, nodes, loopVars,
                   slReturned, slRet, joinSent, ret>>
    /\ UNCHANGED otherVars

\* ------------------------------------------------------ discover.SearchLeader

\* The loop body after one IsLeader RPC: an error is logged and the loop goes
\* on, leader=true returns the node, leader=false goes on.
LoopOutcome_ReturnOnAnswer(reply) == IF reply # "err" THEN "return" ELSE "continue"

LoopOutcome_NoErrorCheck(reply) == IF reply # "false" THEN "return" ELSE "continue"

LoopOutcome(reply) ==
    IF reply = "err" THEN "continue"
    ELSE IF reply = "true" THEN "return"
    ELSE "continue"

\* The return after the loop has run out of nodes.
LoopExhausted_NoError == [id |-> <<>>, err |-> NoError]

LoopExhausted == [id |-> <<>>, err |-> ErrLeaderNotFound]

\* SearchLeader returns r.  Called directly, that is the end; called by
\* joinNodeToExistingConsensus, an error goes back through startConsensus,
\* wrapped, and an id goes on to ConsensusJoin.
SearchLeaderReturns(r) ==
    /\ slReturned' = TRUE
    /\ slRet' = r
    /\ IF entry = "search"
          THEN pc' = "done" /\ UNCHANGED ret
          ELSE IF r.err # NoError
                  THEN /\ pc' = "done"
                       /\ ret' = Wrap(r.err, <<"while", "bootstrapping">>)
                  ELSE pc' = "join" /\ UNCHANGED ret

\* SearchNodes returns: the map's keys without the current node, in the order
\* the map's iteration yields them, and lastError.  SearchLeader returns the
\* error if there is one and starts its loop otherwise.
SearchNodesReturn ==
    /\ pc = "searchNodes"
    /\ i = NumQueries
    /\ \E order \in Perms(ExcludeCurrent(hosts, currentNode)) : nodes' = order
    /\ IF lastError # NoError
          THEN SearchLeaderReturns([id |-> <<>>, err |-> lastError])
          ELSE pc' = "searchLoop" /\ UNCHANGED <<slReturned, slRet, ret>>
    /\ UNCHANGED <<currentNode, entry, cfgServers, bootVars, i, nQuery, reported,
                   hosts, lastError, loopVars, joinSent>>
    /\ UNCHANGED otherVars

\* One iteration of SearchLeader's loop: the IsLeader RPC to the next node.
AskIsLeader ==
    /\ pc = "searchLoop"
    /\ idx <= Len(nodes)
    /\ \E reply \in IsLeaderReplies \cap PeerAnswers(nodes[idx]) :
        /\ asked' = Append(asked, [node |-> nodes[idx],
                                   addr |-> MakeGrpcAddress(nodes[idx]),
                                   reply |-> reply])
        /\ IF LoopOutcome(reply) = "return"
              THEN /\ SearchLeaderReturns([id |-> nodes[idx], err |-> NoError])
                   /\ UNCHANGED idx
              ELSE /\ idx' = idx + 1
                   /\ UNCHANGED <<pc, slReturned, slRet, ret>>
    /\ UNCHANGED <<currentNode, entry, cfgServers, bootVars, nodesVars, joinSent>>
    /\ UNCHANGED otherVars

\* The loop is over and no node answered leader=true.
LeaderNotFound ==
    /\ pc = "searchLoop"
    /\ idx > Len(nodes)
    /\ SearchLeaderReturns(LoopExhausted)
    /\ UNCHANGED <<currentNode, entry, cfgServers, bootVars, nodesVars, loopVars, joinSent>>
    /\ UNCHANGED otherVars

\* A caller other than the boot path calls SearchLeader(currentNode).
SearchLeaderCall ==
    /\ pc = "start"
    /\ entry = "search"
    /\ pc' = "searchNodes"
    /\ UNCHANGED <<currentNode, entry, cfgServers, bootVars, nodesVars, loopVars,
                   slReturned, slRet, joinSent, ret>>
    /\ UNCHANGED otherVars

\* ------------------------------------------------------- newNode and setRaft

\* The steps of newNode and setRaft up to the call of startConsensus, in the
\* order of the code: newFSM (badger.Open, fsm.New), filekit.CreateDirs,
\* net.ResolveTCPAddr, raft.NewTCPTransport, raftboltdb.NewBoltStore,
\* raft.NewFileSnapshotStore, raft.NewRaft.
BootOrder_DirsFirst ==
    <<"createDirs", "openKVStore", "constructFSM", "openLogStore", "openSnapshotStore",
      "resolveTCPAddr", "createTransport", "newRaft">>

BootOrder ==
    <<"openKVStore", "constructFSM", "createDirs", "resolveTCPAddr", "createTransport",
      "openLogStore", "openSnapshotStore", "newRaft">>

\* The steps that return an error; fsm.New does not.
FallibleSteps ==
    {"openKVStore", "createDirs", "resolveTCPAddr", "createTransport", "openLogStore",
     "openSnapshotStore", "newRaft"}

\* newNode and setRaft have come to the call of startConsensus.
AtStartConsensus == newRet = "pending" /\ Len(bootLog) = Len(BootOrder)

\* The next step of newNode or setRaft: it completes, or it fails and New
\* returns its error.
BootStep ==
    /\ entry = "boot"
    /\ newRet = "pending"
    /\ Len(bootLog) < Len(BootOrder)
    /\ \/ bootLog' = Append(bootLog, BootOrder[Len(bootLog) + 1]) /\ UNCHANGED newRet
       \/ /\ BootOrder[Len(bootLog) + 1] \in FallibleSteps
          /\ newRet' = "error"
          /\ UNCHANGED bootLog
    /\ UNCHANGED <<currentNode, entry, pc, cfgServers, bootVars, nodesVars, loopVars,
                   slReturned, slRet, joinSent, ret, leader, engineVars>>
    /\ UNCHANGED <<kvVars, queryVars>>

\* ----------------------------------------------------- Node.startConsensus

\* len(consensusCfg.Servers) >= 2
AlreadyBootstrapped_MoreThanTwo(servers) == Cardinality(servers) > 2

AlreadyBootstrapped(servers) == Cardinality(servers) >= 2

\* fmt.Sprintf("node%v", i) for i = 1..3, each with its consensus address.
\* (A raft.Server whose Suffrage is not set is a voter.)
BootstrappingServers_FromZero ==
    [k \in 1..3 |->
        [ID |-> Node(<<"0", "1", "2">>[k]),
         Address |-> MakeConsensusAddr(Node(<<"0", "1", "2">>[k]))]]

BootstrappingServers ==
    [k \in 1..3 |->
        [ID |-> Node(<<"1", "2", "3">>[k]),
         Address |-> MakeConsensusAddr(Node(<<"1", "2", "3">>[k]))]]

isNodePresentInServers_Never(nodeID, servers) == FALSE

isNodePresentInServers(nodeID, servers) ==
    \E k \in 1..Len(servers) : nodeID = servers[k].ID

\* The bootstrap errors startConsensus returns nil on: every error whose text
\* does not contain "not a voter".
IgnoredBootstrapError_All(err) == err # NoError

IgnoredBootstrapError(err) ==
    err # NoError /\ ~Contains(err, <<"not", "a", "voter">>)

\* The configuration already lists two or more servers: nothing to do.
Resume ==
    /\ pc = "start"
    /\ entry = "boot"
    /\ AtStartConsensus
    /\ AlreadyBootstrapped(cfgServers)
    /\ pc' = "done"
    /\ ret' = NoError
    /\ UNCHANGED <<currentNode, entry, cfgServers, bootVars, nodesVars, loopVars,
                   slReturned, slRet, joinSent>>
    /\ UNCHANGED otherVars

\* BootstrapCluster with the three fixed servers, and what startConsensus makes
\* of its result: nil, or the call of joinNodeToExistingConsensus, which starts
\* with SearchLeader.
Bootstrap ==
    /\ pc = "start"
    /\ entry = "boot"
    /\ AtStartConsensus
    /\ ~AlreadyBootstrapped(cfgServers)
    /\ nBootstrap' = nBootstrap + 1
    /\ bootstrapArg' = BootstrappingServers
    /\ \E e \in BootstrapOutcomes :
        /\ bootstrapErr' = e
        /\ IF IgnoredBootstrapError(e)
              THEN pc' = "done" /\ ret' = NoError /\ UNCHANGED joinEntered
              ELSE IF e = NoError /\ isNodePresentInServers(currentNode, BootstrappingServers)
                      THEN pc' = "done" /\ ret' = NoError /\ UNCHANGED joinEntered
                      ELSE pc' = "searchNodes" /\ joinEntered' = TRUE /\ UNCHANGED ret
    /\ UNCHANGED <<currentNode, entry, cfgServers, nodesVars, loopVars,
                   slReturned, slRet, joinSent>>
    /\ UNCHANGED otherVars

\* cluster.ConsensusJoin(nodeID, config.MakeConsensusAddr(nodeID),
\* config.MakeGrpcAddress(leaderID))
JoinRequest_ToSelf(nodeID, leaderID) ==
    [nodeID |-> nodeID,
     nodeConsensusAddr |-> MakeConsensusAddr(nodeID),
     leaderGrpcAddr |-> MakeGrpcAddress(nodeID)]

JoinRequest(nodeID, leaderID) ==
    [nodeID |-> nodeID,
     nodeConsensusAddr |-> MakeConsensusAddr(nodeID),
     leaderGrpcAddr |-> MakeGrpcAddress(leaderID)]

\* joinNodeToExistingConsensus after SearchLeader found a leader: ConsensusJoin
\* to the leader's RPC address; startConsensus wraps a failure.
ConsensusJoin ==
    /\ pc = "join"
    /\ \E e \in JoinOutcomes \cap AddVoterOutcomes(slRet.id) :
        /\ joinSent' = Append(joinSent, [request |-> JoinRequest(currentNode, slRet.id),
                                         peerWasLeader |-> leader = slRet.id,
                                         err |-> e])
        /\ ret' = IF e # NoError THEN Wrap(e, <<"while", "bootstrapping">>) ELSE NoError
    /\ pc' = "done"
    /\ UNCHANGED <<currentNode, entry, cfgServers, bootVars, nodesVars, loopVars,
                   slReturned, slRet>>
    /\ UNCHANGED otherVars

\* ------------------------------------------- setRaft after startConsensus

\* setRaft goes on to the observers only if startConsensus returned nil.
SetRaftContinues_Always(errStartConsensus) == TRUE

SetRaftContinues(errStartConsensus) == errStartConsensus = NoError

\* raft.NewObserver(channel, true, filter): a blocking observer with a filter
\* on the type of the observation's data.
NodeChangesObserver ==
    [chan |-> "nodeChangesChan", blocking |-> TRUE, filter |-> "RaftState"]

LeaderChangesObserver ==
    [chan |-> "leaderChangesChan", blocking |-> TRUE, filter |-> "LeaderObservation"]

\* startConsensus returned an error: setRaft returns it and New returns no node.
SetRaftFails ==
    /\ entry = "boot"
    /\ pc = "done"
    /\ newRet = "pending"
    /\ ~SetRaftContinues(ret)
    /\ newRet' = "error"
    /\ UNCHANGED <<currentNode, entry, pc, cfgServers, bootVars, nodesVars, loopVars,
                   slReturned, slRet, joinSent, ret, bootLog, leader, engineVars>>
    /\ UNCHANGED <<kvVars, queryVars>>

\* registerNodeChangesChan: the channel is made, the observer registered and
\* the drain goroutine of logNewNodeChange started.
RegisterNodeChangesChan ==
    /\ entry = "boot"
    /\ pc = "done"
    /\ newRet = "pending"
    /\ Len(bootLog) = Len(BootOrder)
    /\ SetRaftContinues(ret)
    /\ observers' = observers \cup {NodeChangesObserver}
    /\ drain' = [drain EXCEPT !["nodeChangesChan"] = "receiving"]
    /\ bootLog' = Append(bootLog, "registerNodeChangesChan")
    /\ UNCHANGED <<currentNode, entry, pc, cfgServers, bootVars, nodesVars, loopVars,
                   slReturned, slRet, joinSent, ret, newRet, leader,
                   cur, toNotify, events, logged>>
    /\ UNCHANGED <<kvVars, queryVars>>

\* registerLeaderChangesChan, likewise with logNewLeader; then setRaft returns
\* nil and New returns the node.
RegisterLeaderChangesChan ==
    /\ entry = "boot"
    /\ pc = "done"
    /\ newRet = "pending"
    /\ Len(bootLog) = Len(BootOrder) + 1
    /\ observers' = observers \cup {LeaderChangesObserver}
    /\ drain' = [drain EXCEPT !["leaderChangesChan"] = "receiving"]
    /\ bootLog' = Append(bootLog, "registerLeaderChangesChan")
    /\ newRet' = "node"
    /\ UNCHANGED <<currentNode, entry, pc, cfgServers, bootVars, nodesVars, loopVars,
                   slReturned, slRet, joinSent, ret, leader,
                   cur, toNotify, events, logged>>
    /\ UNCHANGED <<kvVars, queryVars>>

Next ==
    \/ BootStep
    \/ Election
    \/ SetRaftFails
    \/ RegisterNodeChangesChan
    \/ RegisterLeaderChangesChan
    \/ Resume
    \/ Bootstrap
    \/ SearchLeaderCall
    \/ Query
    \/ SearchNodesReturn
    \/ AskIsLeader
    \/ LeaderNotFound
    \/ ConsensusJoin

Spec == Init /\ [][Next]_vars

\* --------------------------------------------- the engine and its observers

\* What the engine reports to its observers: a change of the node's role, or a
\* change of leader (LeaderID is empty when there is none).
Observations ==
    {[kind |-> "RaftState", data |-> <<r>>] : r \in {"Follower", "Candidate", "Leader"}}
        \cup {[kind |-> "LeaderObservation", data |-> l] : l \in {NoLeader, Node("1"), Node("2")}}

\* The line a drain goroutine logs for an observation it received.
LogLine(kind, data) ==
    IF kind = "RaftState"
       THEN <<"Node", "Changed", "to", "role", ":">> \o data
       ELSE IF data # NoLeader
               THEN <<"New", "Leader", ":">> \o data
               ELSE <<"No", "Leader", "available", "in", "the", "Cluster">>

\* The observer the engine is sending to.
CurrentObserver == CHOOSE o \in observers : o.chan = cur.to

\* The engine is in a send that cannot complete: the observer is blocking, its
\* channel has no buffer, and the drain goroutine is not at its receive.
EngineBlocked ==
    /\ cur.to # "none"
    /\ CurrentObserver.blocking
    /\ drain[cur.to] # "receiving"

\* The engine, running since raft.NewRaft, processes an event and starts to
\* report it to the observers whose filter accepts it.
EngineEvent ==
    /\ "newRaft" \in Range(bootLog)
    /\ cur = NoObservation
    /\ events < MaxEvents
    /\ events' = events + 1
    /\ \E obs \in Observations :
          LET accepting == {o \in observers : o.filter = obs.kind} IN
          /\ toNotify' = accepting
          /\ cur' = IF accepting = {}
                       THEN NoObservation
                       ELSE [kind |-> obs.kind, data |-> obs.data, to |-> "none"]
    /\ UNCHANGED <<currentNode, entry, pc, cfgServers, bootVars, nodesVars, loopVars,
                   slReturned, slRet, joinSent, ret, bootLog, newRet, leader,
                   observers, drain, logged>>
    /\ UNCHANGED <<kvVars, queryVars>>

\* The engine turns to the next observer of the observation.
PickObserver ==
    /\ cur.kind # "none"
    /\ cur.to = "none"
    /\ \E o \in toNotify :
          /\ cur' = [cur EXCEPT !.to = o.chan]
          /\ toNotify' = toNotify \ {o}
    /\ UNCHANGED <<currentNode, entry, pc, cfgServers, bootVars, nodesVars, loopVars,
                   slReturned, slRet, joinSent, ret, bootLog, newRet, leader,
                   observers, drain, events, logged>>
    /\ UNCHANGED <<kvVars, queryVars>>

\* The send on the observer's channel.  The channel has no buffer, so the send
\* completes only when the drain goroutine is at its receive; the goroutine
\* then has the observation and logs it.  A blocking observer makes the engine
\* wait for that; a non-blocking one would drop the observation.
Deliver ==
    /\ cur.to # "none"
    /\ IF drain[cur.to] = "receiving"
          THEN /\ drain' = [drain EXCEPT ![cur.to] = "logging"]
               /\ logged' = Append(logged, LogLine(cur.kind, cur.data))
          ELSE /\ ~CurrentObserver.blocking
               /\ UNCHANGED <<drain, logged>>
    /\ cur' = IF toNotify = {} THEN NoObservation ELSE [cur EXCEPT !.to = "none"]
    /\ UNCHANGED <<currentNode, entry, pc, cfgServers, bootVars, nodesVars, loopVars,
                   slReturned, slRet, joinSent, ret, bootLog, newRet, leader,
                   observers, toNotify, events>>
    /\ UNCHANGED <<kvVars, queryVars>>

\* A drain goroutine has logged its line and is back at its receive.
DrainDone ==
    /\ \E c \in Channels :
          /\ drain[c] = "logging"
          /\ drain' = [drain EXCEPT ![c] = "receiving"]
    /\ UNCHANGED <<currentNode, entry, pc, cfgServers, bootVars, nodesVars, loopVars,
                   slReturned, slRet, joinSent, ret, bootLog, newRet, leader,
                   observers, cur, toNotify, events, logged>>
    /\ UNCHANGED <<kvVars, queryVars>>

\* A node that resumes an existing cluster, and its engine from then on.
InitEngine ==
    /\ Init
    /\ entry = "boot"
    /\ currentNode = Node("1")
    /\ cfgServers = {Node("1"), Node("2"), Node("3")}
    /\ leader = NoLeader

NextEngine ==
    \/ BootStep
    \/ Resume
    \/ RegisterNodeChangesChan
    \/ RegisterLeaderChangesChan
    \/ EngineEvent
    \/ PickObserver
    \/ Deliver
    \/ DrainDone

SpecEngine == InitEngine /\ [][NextEngine]_vars

\* ------------------------------------------- the KV store and the public API

\* badger.ErrKeyNotFound
ErrKeyNotFound == <<"Key", "not", "found">>

\* What cluster.Execute returns when there is no leader to apply the payload.
ErrNoLeader == <<"leader", "not", "available">>

\* strings.ToLower, on the words of the error texts.
ToLower(str) == [k \in 1..Len(str) |-> IF str[k] = "Key" THEN "key" ELSE str[k]]

\* The bytes stored for a value (its JSON encoding) and their decoding.
Marshal(v) == <<"json", v>>

Unmarshal(bytes) ==
    IF Len(bytes) = 2 /\ bytes[1] = "json"
       THEN [value |-> bytes[2], err |-> NoError]
       ELSE [value |-> "", err |-> <<"invalid", "character">>]

\* DatabaseFSM.Get: the value stored under k in the local store, decoded.  (A
\* key without an entry and an entry without bytes are both NoValue here; the
\* stores never hold an entry without bytes.)
Get(db, k) ==
    IF db[k] = NoValue
       THEN [value |-> "", err |-> ErrKeyNotFound]
       ELSE IF Unmarshal(db[k]).err # NoError
               THEN [value |-> "",
                     err |-> Wrap(Unmarshal(db[k]).err,
                                  <<"couldn't", "unmarshal", "get", "results", "from", "DB">>)]
               ELSE [value |-> Unmarshal(db[k]).value, err |-> NoError]

\* DatabaseFSM.GetKeys: the keys the iterator yields, in key order.
GetKeys_SkipFirst(db) ==
    IF SelectSeq(Keys, LAMBDA k : db[k] # NoValue) = <<>>
       THEN <<>>
       ELSE Tail(SelectSeq(Keys, LAMBDA k : db[k] # NoValue))

GetKeys(db) == SelectSeq(Keys, LAMBDA k : db[k] # NoValue)

\* The FSM applies a payload to a store: SET stores the value's bytes, DELETE
\* removes the key and fails if it is missing.
ApplyPayload(db, payload) ==
    IF payload.Operation = "SET"
       THEN [db |-> [db EXCEPT ![payload.Key] = Marshal(payload.Value)], err |-> NoError]
       ELSE IF payload.Operation = "DELETE"
               THEN IF db[payload.Key] = NoValue
                       THEN [db |-> db, err |-> ErrKeyNotFound]
                       ELSE [db |-> [db EXCEPT ![payload.Key] = NoValue], err |-> NoError]
               ELSE [db |-> db, err |-> <<"operation", "type", "not", "recognized">>]

\* fiberparser.ParseAndValidate: the key is required.
ParseAndValidate(key) == key # ""

\* The payloads storeSet and storeDelete hand to cluster.Execute.
SetPayload_NoOperation(key, value) == [Operation |-> "", Key |-> key, Value |-> value]

SetPayload(key, value) == [Operation |-> "SET", Key |-> key, Value |-> value]

DeletePayload(key) == [Operation |-> "DELETE", Key |-> key, Value |-> ""]

\* The status storeGet answers with for the error of FSM.Get.
GetStatus_CaseSensitive(errGet) ==
    IF errGet # NoError
       THEN IF Contains(errGet, <<"key", "not", "found">>) THEN 404 ELSE 500
       ELSE 200

GetStatus(errGet) ==
    IF errGet # NoError
       THEN IF Contains(ToLower(errGet), <<"key", "not", "found">>) THEN 404 ELSE 500
       ELSE 200

\* The status storeSet answers with for the error of cluster.Execute.
SetStatus(errCluster) == IF errCluster # NoError THEN 500 ELSE 200

\* The status storeDelete answers with for the error of cluster.Execute.
DeleteStatus_CaseSensitive(errCluster) ==
    IF errCluster # NoError
       THEN IF Contains(errCluster, <<"key", "not", "found">>) THEN 404 ELSE 500
       ELSE 200

DeleteStatus(errCluster) ==
    IF errCluster # NoError
       THEN IF Contains(ToLower(errCluster), <<"key", "not", "found">>) THEN 404 ELSE 500
       ELSE 200

\* The error cluster.Execute returns for a payload: the leader's FSM result,
\* which comes back unchanged through the forwarding RPC.
ExecuteError(payload) ==
    IF leader = NoLeader THEN ErrNoLeader ELSE ApplyPayload(store[leader], payload).err

\* cluster.Execute at node n: the leader (n itself, or the node n forwards to
\* with ExecuteOnLeader) appends the payload to the log and its FSM applies it.
Execute(n, request, payload) ==
    IF leader = NoLeader
       THEN UNCHANGED <<log, applied, store, accepted>>
       ELSE /\ log' = Append(log, payload)
            /\ accepted' = Append(accepted, request)
            /\ store' = [store EXCEPT ![leader] = ApplyPayload(store[leader], payload).db]
            /\ applied' = [applied EXCEPT ![leader] = Len(log) + 1]

\* The RPCs a write at node n sends: one ExecuteOnLeader if n is not the leader.
ForwardRpcs(n) == IF leader # NoLeader /\ leader # n THEN 1 ELSE 0

\* The leader can take a write: its FSM has applied the log so far.
CanExecute == Len(log) < MaxLog /\ (leader # NoLeader => applied[leader] = Len(log))

\* GET /store at node n.
StoreGet ==
    /\ \E n \in KVNodes, k \in Range(Keys) \cup {""} :
          resp' = IF ~ParseAndValidate(k)
                     THEN [method |-> "GET", node |-> n, key |-> k, status |-> 400,
                           body |-> "", rpcs |-> 0]
                     ELSE [method |-> "GET", node |-> n, key |-> k,
                           status |-> GetStatus(Get(store[n], k).err),
                           body |-> Get(store[n], k).value, rpcs |-> 0]
    /\ UNCHANGED <<log, applied, store, accepted>>
    /\ UNCHANGED <<nodeVars, leader, engineVars, queryVars>>

\* POST /store at node n.
StoreSet ==
    /\ CanExecute
    /\ \E n \in KVNodes, k \in Range(Keys) \cup {""}, v \in Values :
          IF ~ParseAndValidate(k)
             THEN /\ resp' = [method |-> "SET", node |-> n, key |-> k, status |-> 400,
                              body |-> "", rpcs |-> 0]
                  /\ UNCHANGED <<log, applied, store, accepted>>
             ELSE /\ Execute(n, [method |-> "SET", key |-> k, value |-> v], SetPayload(k, v))
                  /\ resp' = [method |-> "SET", node |-> n, key |-> k,
                              status |-> SetStatus(ExecuteError(SetPayload(k, v))),
                              body |-> "", rpcs |-> ForwardRpcs(n)]
    /\ UNCHANGED <<nodeVars, leader, engineVars, queryVars>>

\* DELETE /store at node n.
StoreDelete ==
    /\ CanExecute
    /\ \E n \in KVNodes, k \in Range(Keys) \cup {""} :
          IF ~ParseAndValidate(k)
             THEN /\ resp' = [method |-> "DELETE", node |-> n, key |-> k, status |-> 400,
                              body |-> "", rpcs |-> 0]
                  /\ UNCHANGED <<log, applied, store, accepted>>
             ELSE /\ Execute(n, [method |-> "DELETE", key |-> k, value |-> ""], DeletePayload(k))
                  /\ resp' = [method |-> "DELETE", node |-> n, key |-> k,
                              status |-> DeleteStatus(ExecuteError(DeletePayload(k))),
                              body |-> "", rpcs |-> ForwardRpcs(n)]
    /\ UNCHANGED <<nodeVars, leader, engineVars, queryVars>>

\* The FSM of a node applies the next committed entry.
ApplyOnNode ==
    /\ \E n \in KVNodes :
          /\ applied[n] < Len(log)
          /\ store' = [store EXCEPT ![n] = ApplyPayload(store[n], log[applied[n] + 1]).db]
          /\ applied' = [applied EXCEPT ![n] = applied[n] + 1]
    /\ UNCHANGED <<log, accepted, resp>>
    /\ UNCHANGED <<nodeVars, leader, engineVars, queryVars>>

\* An election among the nodes of the store.
KVElection ==
    /\ \E l \in (KVNodes \cup {NoLeader}) \ {leader} : leader' = l
    /\ UNCHANGED <<nodeVars, engineVars, kvVars, queryVars>>

\* A running cluster with empty stores.
InitKV ==
    /\ Init
    /\ entry = "search"
    /\ currentNode = Node("1")
    /\ cfgServers = {Node("1"), Node("2"), Node("3")}
    /\ leader = NoLeader

NextKV ==
    \/ StoreGet
    \/ StoreSet
    \/ StoreDelete
    \/ ApplyOnNode
    \/ KVElection

SpecKV == InitKV /\ [][NextKV]_vars

\* ------------------------------------------------- the goroutines of query()

\* entriesCh := make(chan *mdns.ServiceEntry, 4)
EntriesChCap == 4

\* query() makes the channel and starts the collector goroutine, then calls
\* mdns.Query.
QStart ==
    /\ qPc = "idle"
    /\ qPc' = "querying"
    /\ collector' = "recv"
    /\ UNCHANGED <<entriesCh, nClose, cEntry, mu, qHosts, delivered, qRet>>
    /\ UNCHANGED <<nodeVars, leader, engineVars, kvVars>>

\* mdns.Query sends a service entry on the channel, if the buffer has room.
MdnsDeliver ==
    /\ qPc = "querying"
    /\ Len(entriesCh) < EntriesChCap
    /\ Len(delivered) < MaxEntries
    /\ \E h \in HostUniverse :
          /\ entriesCh' = Append(entriesCh, h)
          /\ delivered' = Append(delivered, h)
    /\ UNCHANGED <<qPc, nClose, collector, cEntry, mu, qHosts, qRet>>
    /\ UNCHANGED <<nodeVars, leader, engineVars, kvVars>>

\* mdns.Query returns: with an error query() returns it wrapped, without one
\* it goes on to mu.Lock().
MdnsReturn ==
    /\ qPc = "querying"
    /\ \E e \in {NoError, ErrMdns} :
          IF e # NoError
             THEN /\ qRet' = [hosts |-> <<>>, err |-> QueryError(e), done |-> FALSE]
                  /\ qPc' = "close"
             ELSE /\ qPc' = "lock"
                  /\ UNCHANGED qRet
    /\ UNCHANGED <<entriesCh, nClose, collector, cEntry, mu, qHosts, delivered>>
    /\ UNCHANGED <<nodeVars, leader, engineVars, kvVars>>

\* mu.Lock() in query().
QLock ==
    /\ qPc = "lock"
    /\ mu = "none"
    /\ mu' = "query"
    /\ qPc' = "return"
    /\ UNCHANGED <<entriesCh, nClose, collector, cEntry, qHosts, delivered, qRet>>
    /\ UNCHANGED <<nodeVars, leader, engineVars, kvVars>>

\* return hosts, nil: the result is the list as it is now.
QReturn ==
    /\ qPc = "return"
    /\ qRet' = [hosts |-> qHosts, err |-> NoError, done |-> FALSE]
    /\ qPc' = "unlock"
    /\ UNCHANGED <<entriesCh, nClose, collector, cEntry, mu, qHosts, delivered>>
    /\ UNCHANGED <<nodeVars, leader, engineVars, kvVars>>

\* defer mu.Unlock(), the first deferred call to run.
QUnlock ==
    /\ qPc = "unlock"
    /\ mu' = "none"
    /\ qPc' = "close"
    /\ UNCHANGED <<entriesCh, nClose, collector, cEntry, qHosts, delivered, qRet>>
    /\ UNCHANGED <<nodeVars, leader, engineVars, kvVars>>

\* defer close(entriesCh), the last deferred call; query() has then returned.
QClose ==
    /\ qPc = "close"
    /\ nClose' = nClose + 1
    /\ qRet' = [qRet EXCEPT !.done = TRUE]
    /\ qPc' = "done"
    /\ UNCHANGED <<entriesCh, collector, cEntry, mu, qHosts, delivered>>
    /\ UNCHANGED <<nodeVars, leader, engineVars, kvVars>>

\* A range loop over a channel ends when the channel is closed and empty.
RangeEnds_Never(ch, closes) == FALSE

RangeEnds(ch, closes) == ch = <<>> /\ closes > 0

\* for entry := range entriesCh: the collector takes the next entry, or leaves
\* the loop when the channel is closed and empty.
CollectorRecv ==
    /\ collector = "recv"
    /\ IF entriesCh # <<>>
          THEN /\ cEntry' = Head(entriesCh)
               /\ entriesCh' = Tail(entriesCh)
               /\ collector' = "lock"
          ELSE /\ RangeEnds(entriesCh, nClose)
               /\ collector' = "exited"
               /\ UNCHANGED <<cEntry, entriesCh>>
    /\ UNCHANGED <<qPc, nClose, mu, qHosts, delivered, qRet>>
    /\ UNCHANGED <<nodeVars, leader, engineVars, kvVars>>

\* mu.Lock() in the collector.
CollectorLock ==
    /\ collector = "lock"
    /\ mu = "none"
    /\ mu' = "collector"
    /\ collector' = "append"
    /\ UNCHANGED <<qPc, entriesCh, nClose, cEntry, qHosts, delivered, qRet>>
    /\ UNCHANGED <<nodeVars, leader, engineVars, kvVars>>

\* hosts = append(hosts, entry.Host); mu.Unlock()
CollectorAppend ==
    /\ collector = "append"
    /\ qHosts' = Append(qHosts, cEntry)
    /\ cEntry' = <<>>
    /\ mu' = "none"
    /\ collector' = "recv"
    /\ UNCHANGED <<qPc, entriesCh, nClose, delivered, qRet>>
    /\ UNCHANGED <<nodeVars, leader, engineVars, kvVars>>

\* One call of query().
InitQuery ==
    /\ Init
    /\ entry = "search"
    /\ currentNode = Node("1")
    /\ cfgServers = {Node("1"), Node("2"), Node("3")}
    /\ leader = NoLeader

NextQuery ==
    \/ QStart
    \/ MdnsDeliver
    \/ MdnsReturn
    \/ QLock
    \/ QReturn
    \/ QUnlock
    \/ QClose
    \/ CollectorRecv
    \/ CollectorLock
    \/ CollectorAppend

SpecQuery == InitQuery /\ [][NextQuery]_vars

\* One call of query() with its two goroutines scheduled: mdns.Query returns
\* (it ends at its timeout), and neither query() nor the collector is held
\* back forever at a step it can take.  Nothing makes mdns.Query send an entry.
SpecQueryLive ==
    /\ SpecQuery
    /\ WF_vars(MdnsReturn)
    /\ WF_vars(QLock)
    /\ WF_vars(QReturn)
    /\ WF_vars(QUnlock)
    /\ WF_vars(QClose)
    /\ WF_vars(CollectorRecv)
    /\ WF_vars(CollectorLock)
    /\ WF_vars(CollectorAppend)

\* ------------------------------------------------------------------ claims

\* A name with only its trailing dots stripped.
RECURSIVE TrimTrailingDots(_)
TrimTrailingDots(host) ==
    IF Len(host) > 0 /\ host[Len(host)] = Dot
       THEN TrimTrailingDots(SubSeq(host, 1, Len(host) - 1))
       ELSE host

\* The ids of the bootstrap list node1, node2, node3.
ListedIds == {Node("1"), Node("2"), Node("3")}

NotAVoter(err) == Contains(err, <<"not", "a", "voter">>)

NoDuplicates(s) == \A a, b \in 1..Len(s) : s[a] = s[b] => a = b

\* SearchNodes has returned its result.
SearchNodesReturned == i = NumQueries /\ pc \notin {"start", "searchNodes"}

\* No node asked so far has answered leader=true.
NoLeaderAnswer == \A k \in 1..Len(asked) : asked[k].reply # "true"

\* startConsensus has returned.
StartConsensusReturned == entry = "boot" /\ pc = "done"

\* C1: whatever the local id is (ids with dots included) and whatever hosts the
\* queries report, SearchLeader never returns the id it was called with, also
\* when the local node advertises itself and answers leader=true.
C1_NeverReturnsSelf == slReturned => slRet.id # currentNode

\* C1 witness: the local node, whose id has a dot, was reported by a query, and
\* the search returned the node that answered leader=true.
C1_Witness ==
    /\ slReturned
    /\ slRet.err = NoError
    /\ Contains(currentNode, <<Dot>>)
    /\ currentNode \in reported

\* C2: an id SearchLeader returns is an enumerated peer whose IsLeader RPC
\* answered leader=true; every peer asked before it failed to answer or answered
\* leader=false; and no peer is asked after a leader=true answer.
C2_FirstLeaderReturned ==
    /\ \A k \in 1..Len(asked) :
          asked[k].reply = "true" =>
              /\ k = Len(asked)
              /\ slReturned
              /\ slRet = [id |-> asked[k].node, err |-> NoError]
    /\ (slReturned /\ slRet.err = NoError) =>
          /\ Len(asked) >= 1
          /\ asked[Len(asked)].node = slRet.id
          /\ asked[Len(asked)].reply = "true"
          /\ asked[Len(asked)].addr = MakeGrpcAddress(slRet.id)
          /\ \A k \in 1..(Len(asked) - 1) : asked[k].reply \in {"err", "false"}
          /\ slRet.id \in Range(nodes)
          /\ slRet.id \in {ReplaceAllDots(h) : h \in reported}

\* C2 witness: a leader was returned after two other peers had been asked.
C2_Witness == slReturned /\ slRet.err = NoError /\ Len(asked) = 3

\* C3 as stated: a search that completes without a leader=true answer fails
\* with LeaderNotFound, whatever queries or RPCs failed, and so does the join.
C3_AlwaysLeaderNotFound ==
    (slReturned /\ NoLeaderAnswer) =>
        /\ slRet.err = ErrLeaderNotFound
        /\ (entry = "boot" => Contains(ret, ErrLeaderNotFound))

\* C3 as amended: a search whose three queries all succeeded and that gets no
\* leader=true answer fails with LeaderNotFound after asking every enumerated
\* peer, and the join fails with it (wrapped by startConsensus); a search with
\* a failed query fails with the last query's error instead and asks no peer.
C3_LeaderNotFoundUnlessQueryFailed ==
    (slReturned /\ NoLeaderAnswer) =>
        IF lastError = NoError
           THEN /\ slRet = [id |-> <<>>, err |-> ErrLeaderNotFound]
                /\ Len(asked) = Len(nodes)
                /\ entry = "boot" =>
                      /\ pc = "done"
                      /\ ret = Wrap(ErrLeaderNotFound, <<"while", "bootstrapping">>)
                      /\ joinSent = <<>>
           ELSE /\ slRet = [id |-> <<>>, err |-> lastError]
                /\ asked = <<>>
                /\ entry = "boot" =>
                      /\ pc = "done"
                      /\ ret = Wrap(lastError, <<"while", "bootstrapping">>)
                      /\ joinSent = <<>>

\* C3 witness: the boot join failed with LeaderNotFound after a peer could not
\* be contacted.
C3_Witness ==
    /\ StartConsensusReturned
    /\ slReturned
    /\ lastError = NoError
    /\ slRet.err = ErrLeaderNotFound
    /\ \E k \in 1..Len(asked) : asked[k].reply = "err"

\* C4: an IsLeader RPC that fails does not end the search: the peers are asked
\* in the order enumerated, the peer after a failed one is asked too, the search
\* ends without a leader only when every enumerated peer has been asked, and a
\* leader=true answer is returned however many peers failed before it.
C4_ErrorDoesNotAbort ==
    /\ Len(asked) <= Len(nodes)
    /\ \A k \in 1..Len(asked) : asked[k].node = nodes[k]
    /\ slReturned =>
          /\ \A k \in 1..Len(asked) :
                (asked[k].reply = "err" /\ k < Len(nodes)) => Len(asked) > k
          /\ (lastError = NoError /\ NoLeaderAnswer) => Len(asked) = Len(nodes)
          /\ ~NoLeaderAnswer => slRet = [id |-> asked[Len(asked)].node, err |-> NoError]

\* C4 witness: the leader was found although the two peers asked before it
\* could not be contacted.
C4_Witness ==
    /\ slReturned
    /\ slRet.err = NoError
    /\ Len(asked) = 3
    /\ asked[1].reply = "err"
    /\ asked[2].reply = "err"

\* C5: SearchNodes issues exactly three queries and returns a result without
\* duplicates and without the current node that holds every host a successful
\* query reported (its trailing dots stripped), the caller's own excepted.
C5_SearchNodesResult ==
    SearchNodesReturned =>
        /\ nQuery = NumQueries
        /\ NoDuplicates(nodes)
        /\ currentNode \notin Range(nodes)
        /\ \A h \in reported :
              TrimTrailingDots(h) # currentNode => TrimTrailingDots(h) \in Range(nodes)

\* C6: the key SearchNodes keeps for a reported host is the host's name with
\* only its trailing dots stripped, dots inside the name preserved.
C6_OnlyTrailingDotsStripped == hosts = {TrimTrailingDots(h) : h \in reported}

\* C7: a boot that finds two or more servers in the configuration makes no
\* BootstrapCluster call, no query, no IsLeader RPC and no ConsensusJoin, and
\* startConsensus returns nil.
C7_ResumeDoesNothing ==
    (entry = "boot" /\ Cardinality(cfgServers) >= 2) =>
        /\ pc \in {"start", "done"}
        /\ nBootstrap = 0
        /\ bootstrapArg = <<>>
        /\ ~joinEntered
        /\ nQuery = 0
        /\ asked = <<>>
        /\ ~slReturned
        /\ joinSent = <<>>
        /\ ret = NoError

\* C7 witness: startConsensus returned on a configuration of two servers.
C7_Witness == StartConsensusReturned /\ Cardinality(cfgServers) = 2

\* C8: after a "not a voter" failure of BootstrapCluster the node goes on to
\* the explicit join: it runs the leader search, sends ConsensusJoin to the
\* leader found, and returns nil only if that ConsensusJoin was sent.
C8_NotVoterJoins ==
    (entry = "boot" /\ nBootstrap = 1 /\ NotAVoter(bootstrapErr)) =>
        /\ joinEntered
        /\ pc # "start"
        /\ pc = "done" =>
              /\ slReturned
              /\ nQuery = NumQueries
              /\ IF slRet.err = NoError
                    THEN /\ Len(joinSent) = 1
                         /\ joinSent[1].request.nodeID = currentNode
                         /\ joinSent[1].request.leaderGrpcAddr = MakeGrpcAddress(slRet.id)
                    ELSE joinSent = <<>> /\ ret # NoError

\* C8 witness: BootstrapCluster failed with "not a voter", a leader was found
\* and the join succeeded.
C8_Witness ==
    /\ StartConsensusReturned
    /\ bootstrapErr = ErrNotVoter
    /\ Len(joinSent) = 1
    /\ ret = NoError

\* C9: after a BootstrapCluster failure other than "not a voter" the node is
\* done without joining if its id is in the bootstrap list and performs the
\* explicit join if it is not.
C9_OtherErrorJoinsUnlessListed ==
    (StartConsensusReturned /\ nBootstrap = 1
        /\ bootstrapErr # NoError /\ ~NotAVoter(bootstrapErr)) =>
        (joinEntered <=> currentNode \notin ListedIds)

\* C10: after a successful BootstrapCluster a node of the bootstrap list returns
\* nil without any query, IsLeader RPC or ConsensusJoin; a node outside the
\* list attempts the explicit join.
C10_SuccessListedDoneElseJoin ==
    (entry = "boot" /\ nBootstrap = 1 /\ bootstrapErr = NoError) =>
        IF currentNode \in ListedIds
           THEN /\ pc = "done"
                /\ ret = NoError
                /\ ~joinEntered
                /\ nQuery = 0
                /\ asked = <<>>
                /\ joinSent = <<>>
           ELSE /\ joinEntered
                /\ pc # "start"
                /\ pc = "done" => (slReturned /\ nQuery = NumQueries)

\* C10 witness: node1 bootstrapped successfully and startConsensus returned.
C10_Witness ==
    /\ StartConsensusReturned
    /\ nBootstrap = 1
    /\ bootstrapErr = NoError
    /\ currentNode = Node("1")

\* C12 as stated: ConsensusJoin goes only to the peer SearchLeader returned in
\* the same join attempt, and that peer is the leader when it executes the
\* request as addVoter, whatever elections fall in between.
C12_JoinPeerIsLeader ==
    \A k \in 1..Len(joinSent) :
        /\ joinSent[k].request.leaderGrpcAddr = MakeGrpcAddress(slRet.id)
        /\ joinSent[k].peerWasLeader

\* C12 as amended: ConsensusJoin is sent at most once per attempt, for the
\* local node, to the peer SearchLeader returned, whose last IsLeader answer was
\* leader=true; the peer may have lost the leadership since, and then addVoter
\* is refused and startConsensus returns an error: the join succeeds only if
\* the peer is the leader when it executes the request.
C12_JoinGoesToReturnedPeer ==
    /\ Len(joinSent) <= 1
    /\ \A k \in 1..Len(joinSent) :
          /\ slReturned
          /\ slRet.err = NoError
          /\ joinSent[k].request =
                [nodeID |-> currentNode,
                 nodeConsensusAddr |-> MakeConsensusAddr(currentNode),
                 leaderGrpcAddr |-> MakeGrpcAddress(slRet.id)]
          /\ asked[Len(asked)] =
                [node |-> slRet.id, addr |-> MakeGrpcAddress(slRet.id), reply |-> "true"]
          /\ joinSent[k].err = NoError => joinSent[k].peerWasLeader
          /\ ~joinSent[k].peerWasLeader => (ret # NoError /\ Contains(ret, ErrNotLeader))
                                            \/ Contains(ret, ErrJoin)

\* C12 witness: the peer that had answered leader=true was no longer the leader
\* when ConsensusJoin reached it, and the join failed.
C12_Witness ==
    /\ Len(joinSent) = 1
    /\ ~joinSent[1].peerWasLeader
    /\ joinSent[1].err = ErrNotLeader
    /\ ret = Wrap(ErrNotLeader, <<"while", "bootstrapping">>)

\* The steps the boot has completed come in the order a before b.
Before(a, b) == b \in Range(bootLog) => a \in Range(bootLog)

\* startConsensus has decided between resuming, bootstrapping and joining.
Decided == entry = "boot" /\ pc # "start"

IsPrefix(s, t) == Len(s) <= Len(t) /\ s = SubSeq(t, 1, Len(s))

\* C17 as stated: the boot creates the directories, opens the KV store,
\* constructs the FSM, opens the log store, opens the snapshot store, creates
\* the transport, starts consensus and registers the observers, in this order,
\* and only then decides between bootstrap and join.
C17_StatedBootOrder ==
    /\ Before("createDirs", "openKVStore")
    /\ Before("openKVStore", "constructFSM")
    /\ Before("constructFSM", "openLogStore")
    /\ Before("openLogStore", "openSnapshotStore")
    /\ Before("openSnapshotStore", "createTransport")
    /\ Before("createTransport", "newRaft")
    /\ Before("newRaft", "registerNodeChangesChan")
    /\ Before("newRaft", "registerLeaderChangesChan")
    /\ Decided => {"registerNodeChangesChan", "registerLeaderChangesChan"} \subseteq Range(bootLog)

\* C17 as amended: the boot opens the KV store, constructs the FSM, creates the
\* directories, creates the transport, opens the log store, opens the snapshot
\* store and starts consensus, in this order, each step after the previous one
\* has completed; then startConsensus decides between bootstrap and join; and
\* the observers are registered only after it has returned nil.
C17_CodeBootOrder ==
    /\ IsPrefix(bootLog,
                <<"openKVStore", "constructFSM", "createDirs", "resolveTCPAddr",
                  "createTransport", "openLogStore", "openSnapshotStore", "newRaft",
                  "registerNodeChangesChan", "registerLeaderChangesChan">>)
    /\ Decided => Len(bootLog) >= 8
    /\ Len(bootLog) > 8 => (pc = "done" /\ ret = NoError)
    /\ newRet = "node" => Len(bootLog) = 10

\* C17 witness: a boot that went through the explicit join and registered both
\* observers.
C17_Witness == newRet = "node" /\ joinEntered /\ Len(bootLog) = 10

\* C18: BootstrapCluster is called at most once per boot, and always with the
\* three servers node1, node2, node3 at their addresses, whatever the local id.
C18_BootstrapOnceFixedVoters ==
    /\ nBootstrap <= 1
    /\ nBootstrap = 0 => bootstrapArg = <<>>
    /\ nBootstrap = 1 =>
          bootstrapArg =
              <<[ID |-> Node("1"), Address |-> MakeConsensusAddr(Node("1"))],
                [ID |-> Node("2"), Address |-> MakeConsensusAddr(Node("2"))],
                [ID |-> Node("3"), Address |-> MakeConsensusAddr(Node("3"))]>>

\* C18 witness: a node outside the list, with a dot in its id, has bootstrapped.
C18_Witness ==
    /\ StartConsensusReturned
    /\ nBootstrap = 1
    /\ currentNode = <<"node", Dot, "4">>
    /\ cfgServers = {currentNode}

\* The explicit join was attempted and failed.
JoinFailed ==
    /\ joinEntered
    /\ \/ slReturned /\ slRet.err # NoError
       \/ Len(joinSent) = 1 /\ joinSent[1].err # NoError

\* C19: startConsensus returns an error exactly when the explicit join was
\* attempted and failed, never the error of BootstrapCluster; and when it
\* returns an error, New returns no node, no observer is registered and no
\* drain goroutine runs.
C19_ErrorIffJoinFailed ==
    /\ StartConsensusReturned =>
          /\ ret # NoError <=> JoinFailed
          /\ bootstrapErr # NoError => ~Contains(ret, bootstrapErr)
          /\ ret # NoError =>
                /\ newRet \in {"pending", "error"}
                /\ observers = {}
                /\ \A c \in Channels : drain[c] = "none"
                /\ Len(bootLog) = 8
    /\ newRet = "error" => (observers = {} /\ \A c \in Channels : drain[c] = "none")

\* C19 witness: the join after a "not a voter" failure found no leader, and New
\* returned the error.
C19_Witness ==
    /\ StartConsensusReturned
    /\ bootstrapErr = ErrNotVoter
    /\ ret = Wrap(ErrLeaderNotFound, <<"while", "bootstrapping">>)
    /\ newRet = "error"

\* C11: a drain goroutine that is not receiving never holds the engine up: a
\* send to an observation channel can always complete at once.
C11_DeliveryNeverBlocks == ~EngineBlocked


\* ---- the KV store
\* The mark of a key without a value in a replayed map.
Absent == "absent"

\* The replay of a sequence of client writes, in order, over an empty map.
RECURSIVE ReplayMap(_)
ReplayMap(reqs) ==
    IF reqs = <<>>
       THEN [k \in Range(Keys) |-> Absent]
       ELSE IF reqs[Len(reqs)].method = "SET"
               THEN [ReplayMap(SubSeq(reqs, 1, Len(reqs) - 1))
                        EXCEPT ![reqs[Len(reqs)].key] = reqs[Len(reqs)].value]
               ELSE [ReplayMap(SubSeq(reqs, 1, Len(reqs) - 1))
                        EXCEPT ![reqs[Len(reqs)].key] = Absent]

\* The writes node n has applied.
AppliedWrites(n) == SubSeq(accepted, 1, applied[n])

\* Every node has applied the whole log.
Quiescent == \A n \in KVNodes : applied[n] = Len(log)

\* The at-th accepted write is a DELETE of a key that the writes before it
\* leave without a value.
DeleteOfAbsent(reqs, at) ==
    /\ reqs[at].method = "DELETE"
    /\ ReplayMap(SubSeq(reqs, 1, at - 1))[reqs[at].key] = Absent

\* C13: a DELETE of a key that is absent is answered with 404, and neither the
\* leader that accepts it nor any node that applies it later changes its store
\* or the result of GetKeys.
C13_DeleteMissingNotFound ==
    [][\A n \in KVNodes :
          (applied'[n] = applied[n] + 1 /\ DeleteOfAbsent(accepted', applied'[n]))
             => /\ store' = store
                /\ \A m \in KVNodes : GetKeys(store'[m]) = GetKeys(store[m])
                /\ log' # log => (resp'.method = "DELETE" /\ resp'.status = 404)]_vars

\* A forwarded DELETE of a missing key was answered with 404 and every node has
\* applied it, the key set before it still in place.
C13_Witness ==
    /\ resp.method = "DELETE" /\ resp.status = 404 /\ resp.rpcs = 1
    /\ Len(accepted) >= 2 /\ Quiescent
    /\ DeleteOfAbsent(accepted, Len(accepted))
    /\ \A n \in KVNodes : GetKeys(store[n]) # <<>>

\* C14: on every node GetKeys lists, without repetition, exactly the keys whose
\* last applied write was a SET.
C14_GetKeysAreLiveKeys ==
    \A n \in KVNodes :
        /\ NoDuplicates(GetKeys(store[n]))
        /\ Range(GetKeys(store[n])) =
              {k \in Range(Keys) : ReplayMap(AppliedWrites(n))[k] # Absent}

\* A node has applied a SET of one key and a SET then a DELETE of another.
C14_Witness ==
    \E n \in KVNodes :
        /\ applied[n] = 2
        /\ accepted[1].method = "SET" /\ accepted[2].method = "DELETE"
        /\ accepted[1].key = accepted[2].key
        /\ GetKeys(store[n]) = <<>>

\* C15: a GET changes neither the log nor any store, sends no RPC, and answers
\* from what the receiving node has applied: that value, or 404 if the node
\* has none, whatever the log holds beyond it.
C15_GetIsLocalRead ==
    [][(resp'.method = "GET" /\ resp' # resp)
          => /\ log' = log /\ store' = store /\ applied' = applied
             /\ resp'.rpcs = 0
             /\ resp'.key # "" =>
                   IF ReplayMap(AppliedWrites(resp'.node))[resp'.key] = Absent
                      THEN resp'.status = 404
                      ELSE /\ resp'.status = 200
                           /\ resp'.body = ReplayMap(AppliedWrites(resp'.node))[resp'.key]]_vars

\* A GET answered by a lagging node with a value the log has since replaced.
C15_Witness ==
    /\ resp.method = "GET" /\ resp.status = 200
    /\ applied[resp.node] < Len(log)
    /\ ReplayMap(accepted)[resp.key] # Absent
    /\ resp.body # ReplayMap(accepted)[resp.key]

\* C16: once every node has applied the whole log, every node's store holds
\* exactly the replay of the accepted writes: no value for a key the replay
\* leaves absent, the replayed value for every other key.
C16_QuiescentStoresAreReplay ==
    Quiescent =>
        \A n \in KVNodes, k \in Range(Keys) :
            IF ReplayMap(accepted)[k] = Absent
               THEN store[n][k] = NoValue
               ELSE /\ store[n][k] # NoValue
                    /\ Unmarshal(store[n][k]).value = ReplayMap(accepted)[k]

\* Two writes, the last forwarded by a follower, applied by every node.
C16_Witness ==
    /\ Quiescent /\ Len(accepted) >= 2
    /\ resp.method = "SET" /\ resp.status = 200 /\ resp.rpcs = 1
    /\ accepted[1].key # accepted[2].key
    /\ \A n \in KVNodes : GetKeys(store[n]) = Keys

\* ---- query()
\* C20: a query() that has returned without error returns the host of every
\* entry the mDNS query sent on the entries channel.
C20_NoDeliveredEntryLost ==
    (qRet.done /\ qRet.err = NoError) => Range(delivered) \subseteq Range(qRet.hosts)

\* query() has passed its last deferred call.
QueryReturned == qPc = "done"

\* C21: on both return paths of query() the entries channel is closed exactly
\* once (never before mdns.Query has returned, never twice, and always by the
\* time query() has returned), and once query() has been called its collector
\* goroutine eventually leaves its loop.
C21_ClosedOnceCollectorExits ==
    /\ [](nClose <= 1)
    /\ [](nClose = 1 <=> QueryReturned)
    /\ [](qRet.done => nClose = 1)
    /\ [][nClose' # nClose => qPc = "close" /\ nClose' = nClose + 1]_vars
    /\ [](collector = "exited" => nClose = 1 /\ entriesCh = <<>>)
    /\ (qPc # "idle") ~> (collector = "exited")

\* A successful query() has returned, its channel closed once, and its
\* collector has left the loop after appending an entry that query() did not
\* wait for.
C21_Witness ==
    /\ QueryReturned /\ qRet.done /\ qRet.err = NoError
    /\ nClose = 1
    /\ collector = "exited"
    /\ qHosts # <<>> /\ qHosts # qRet.hosts

\* A failed query() has returned, its channel closed once, and its collector has
\* left the loop.
C21_WitnessFailed ==
    /\ QueryReturned /\ qRet.done /\ qRet.err # NoError
    /\ nClose = 1
    /\ collector = "exited"

====
